---- MODULE Spec2Model ----
(***************************************************************************)
(* Model of dkm_analysis: the extract -> sort -> bin -> aggregate ->      *)
(* summarize -> render pipeline of src/pcap_analyzer and src/compare.py.  *)
(*                                                                         *)
(* Time is counted in integer ticks; `res' is the number of ticks in one  *)
(* second, so a float timestamp x is the tick x*res and the bin width     *)
(* time_interval (seconds) is w/res.  Metric values are exact fractions   *)
(* [n, d] in lowest terms; d = 0 is NaN.                                   *)
(***************************************************************************)
EXTENDS Integers, Sequences, FiniteSets, TLC

VARIABLES
    pc,             \* position of the driver
    rows,           \* parsed tool rows [t, v] of the call under analysis
    time_interval,  \* bin width w, in ticks
    res,            \* ticks per second
    sample_rate,    \* sampling fraction s as [n, d]
    ret,            \* value returned by the last calculate_* call
    file_info,      \* value returned by the last prepare_* call
    file_data,      \* main(): results dict, file -> metric -> series
    sample_rates,   \* main(): file -> sampling fraction
    cur,            \* main(): index of the next (file, metric) extraction
    rendered,       \* names of the figures written so far
    raised,         \* exception that ended the run, or "no"
    filter_cmd,     \* display filter of the last tshark command
    pcap_files,     \* main(): sizes of the discovered .pcapng files, or None
    printed,        \* report and error lines written so far
    drawn,          \* curves handed to the axes of the figures
    durations       \* value returned by the last get_durations call

vars == <<pc, rows, time_interval, res, sample_rate, ret, file_info,
          file_data, sample_rates, cur, rendered, raised,
          filter_cmd, pcap_files, printed, drawn, durations>>

----------------------------------------------------------------------------
(* Bounds *)
MaxLen == 2     \* rows per tool output
MaxT == 5       \* largest timestamp tick
MaxW == 2       \* largest bin width in ticks
MaxFiles == 3   \* .pcapng files in the directory
MaxViewFiles == 2   \* files whose results the plot functions are called on in turn

----------------------------------------------------------------------------
(* Exact arithmetic standing for the float arithmetic of the source *)

RECURSIVE GCD(_, _)
GCD(a, b) == IF b = 0 THEN a ELSE GCD(b, a % b)

Abs(x) == IF x < 0 THEN -x ELSE x

NaN == [n |-> 0, d |-> 0]

IsNaN(x) == x.d = 0

Frac(n, d) ==
    IF d = 0 THEN NaN
    ELSE LET g == GCD(Abs(n), Abs(d))
             sg == IF d < 0 THEN -1 ELSE 1
         IN [n |-> sg * (n \div g), d |-> sg * (d \div g)]

FInt(k) == [n |-> k, d |-> 1]

FAdd(x, y) == IF IsNaN(x) \/ IsNaN(y) THEN NaN
              ELSE LET g == GCD(x.d, y.d)
                   IN Frac(x.n * (y.d \div g) + y.n * (x.d \div g),
                           (x.d \div g) * y.d)

FMul(x, y) == IF IsNaN(x) \/ IsNaN(y) THEN NaN
              ELSE LET g1 == GCD(Abs(x.n), y.d)
                       g2 == GCD(Abs(y.n), x.d)
                   IN Frac((x.n \div g1) * (y.n \div g2),
                           (x.d \div g2) * (y.d \div g1))

\* x / y; a zero divisor yields NaN (numpy warns, it does not raise)
FDiv(x, y) == IF IsNaN(x) \/ IsNaN(y) THEN NaN
              ELSE IF y.n = 0 THEN NaN
              ELSE FMul(x, Frac(y.d, y.n))

FLt(x, y) == x.n * y.d < y.n * x.d

FLe(x, y) == x.n * y.d <= y.n * x.d

One == FInt(1)

RECURSIVE SumSeq(_)
SumSeq(s) == IF s = <<>> THEN 0 ELSE Head(s) + SumSeq(Tail(s))

RECURSIVE FSum(_)
FSum(s) == IF s = <<>> THEN FInt(0) ELSE FAdd(Head(s), FSum(Tail(s)))

\* the seconds in `ticks' ticks
Seconds(ticks, r) == Frac(ticks, r)

----------------------------------------------------------------------------
(* numpy primitives used by the binners *)

\* np.arange(start, stop, step): start + k*step for k < ceil((stop-start)/step)
Arange(start, stop, step) ==
    LET n == IF stop > start THEN (stop - start + step - 1) \div step ELSE 0
    IN [k \in 1..n |-> start + (k - 1) * step]

\* np.histogram(ts, bins=bins)[0]: half-open bins, the last one closed
Histogram_open(ts, bins) ==
    [i \in 1..(Len(bins) - 1) |->
        Cardinality({j \in 1..Len(ts) : bins[i] <= ts[j] /\ ts[j] < bins[i + 1]})]

Histogram(ts, bins) ==
    [i \in 1..(Len(bins) - 1) |->
        Cardinality({j \in 1..Len(ts) :
            /\ bins[i] <= ts[j]
            /\ \/ ts[j] < bins[i + 1]
               \/ (i = Len(bins) - 1 /\ ts[j] = bins[i + 1])})]

\* np.digitize(x, bins): i with bins[i-1] <= x < bins[i]; len(bins) past the end
Digitize(x, bins) == Cardinality({i \in 1..Len(bins) : bins[i] <= x})

\* a[mask]: the elements of a whose index satisfies the mask, in order
RECURSIVE Masked(_, _, _)
Masked(a, digitized, i) ==
    IF a = <<>> THEN <<>>
    ELSE LET rest == Masked(Tail(a), Tail(digitized), i)
         IN IF Head(digitized) = i THEN <<Head(a)>> \o rest ELSE rest

\* timestamps.sort() / np.argsort(timestamps): rows in ascending timestamp order
RECURSIVE InsertRow(_, _)
InsertRow(r, s) ==
    IF s = <<>> THEN <<r>>
    ELSE IF r.t < Head(s).t THEN <<r>> \o s
    ELSE <<Head(s)>> \o InsertRow(r, Tail(s))

SortRows_none(rs) == rs

RECURSIVE SortRows(_)
SortRows(rs) ==
    IF rs = <<>> THEN <<>>
    ELSE InsertRow(rs[Len(rs)], SortRows(SubSeq(rs, 1, Len(rs) - 1)))

Timestamps(rs) == [i \in 1..Len(rs) |-> rs[i].t]

Values(rs) == [i \in 1..Len(rs) |-> rs[i].v]

----------------------------------------------------------------------------
(* Return values of the calculate_* functions *)

NoneResult == [kind |-> "none", times |-> <<>>, vals |-> <<>>]

EmptySeries == [kind |-> "series", times |-> <<>>, vals |-> <<>>]

Series(times, vals) == [kind |-> "series", times |-> times, vals |-> vals]

Missing == [kind |-> "missing", times |-> <<>>, vals |-> <<>>]

\* one printed line: its text, the files it names and the number it shows
Line(text, who, x) == [line |-> text, who |-> who, x |-> x]

\* a printed line without file or number
Msg(text) == Line(text, <<>>, NaN)

----------------------------------------------------------------------------
(* Binner/Aggregator *)

\* if sample_rate < 1.0: x = x / sample_rate
SampleCorrect_none(x, s) == x

SampleCorrect(x, s) == IF FLt(s, One) THEN FDiv(x, s) ELSE x

\* bins[:-1] - start_time
RelativeBinStarts_abs(bins, start_time) ==
    [i \in 1..(Len(bins) - 1) |-> bins[i]]

RelativeBinStarts(bins, start_time) ==
    [i \in 1..(Len(bins) - 1) |-> bins[i] - start_time]

\* if duration <= 0
IsDegenerate_strict(duration) == duration < 0

IsDegenerate(duration) == duration <= 0

\* packet_processing.py 59-93
PacketRateSeries(rs, w, r, s) ==
    IF rs = <<>> THEN EmptySeries
    ELSE
    LET timestamps == Timestamps(SortRows(rs))
        start_time == timestamps[1]
        end_time == timestamps[Len(timestamps)]
        duration == end_time - start_time
    IN  IF IsDegenerate(duration)
        THEN Series(<<0>>, <<FInt(Len(timestamps))>>)
        ELSE
        LET bins == Arange(start_time, end_time + w, w)
            counts == Histogram(timestamps, bins)
            corrected == [i \in 1..Len(counts) |-> SampleCorrect(FInt(counts[i]), s)]
            relative_bin_starts == RelativeBinStarts(bins, start_time)
            packets_per_second ==
                [i \in 1..Len(counts) |-> FDiv(corrected[i], Seconds(w, r))]
        IN Series(relative_bin_starts, packets_per_second)

\* np.mean(rtts) if len(rtts) > 0 else np.nan
RttReduce_zero(rtts, s) ==
    IF Len(rtts) > 0 THEN Frac(SumSeq(rtts), Len(rtts)) ELSE FInt(0)

RttReduce_scaled(rtts, s) ==
    IF Len(rtts) > 0 THEN SampleCorrect(Frac(SumSeq(rtts), Len(rtts)), s) ELSE NaN

RttReduce(rtts, s) ==
    IF Len(rtts) > 0 THEN Frac(SumSeq(rtts), Len(rtts)) ELSE NaN

\* packet_processing.py 152-186
RttSeries(rs, w, r, s) ==
    IF rs = <<>> THEN EmptySeries
    ELSE
    LET sorted == SortRows(rs)
        timestamps == Timestamps(sorted)
        rtt_values == Values(sorted)
        start_time == timestamps[1]
        end_time == timestamps[Len(timestamps)]
        duration == end_time - start_time
    IN  IF IsDegenerate(duration)
        THEN Series(<<0>>, <<Frac(SumSeq(rtt_values), Len(rtt_values))>>)
        ELSE
        LET bins == Arange(start_time, end_time + w, w)
            digitized == [j \in 1..Len(timestamps) |-> Digitize(timestamps[j], bins)]
            mean_rtt == [i \in 1..(Len(bins) - 1) |->
                            RttReduce(Masked(rtt_values, digitized, i), s)]
        IN Series(RelativeBinStarts(bins, start_time), mean_rtt)

\* np.sum(sizes) * 8 / time_interval if len(sizes) > 0 else 0
ThroughputReduce_bytes(sizes, w, r) ==
    IF Len(sizes) > 0 THEN FDiv(FInt(SumSeq(sizes)), Seconds(w, r)) ELSE FInt(0)

ThroughputReduce(sizes, w, r) ==
    IF Len(sizes) > 0 THEN FDiv(FInt(SumSeq(sizes) * 8), Seconds(w, r)) ELSE FInt(0)

\* packet_processing.py 245-285
ThroughputSeries(rs, w, r, s) ==
    IF rs = <<>> THEN EmptySeries
    ELSE
    LET sorted == SortRows(rs)
        timestamps == Timestamps(sorted)
        frame_sizes == Values(sorted)
        start_time == timestamps[1]
        end_time == timestamps[Len(timestamps)]
        duration == end_time - start_time
    IN  IF IsDegenerate(duration)
        THEN Series(<<0>>, <<FInt(SumSeq(frame_sizes) * 8)>>)
        ELSE
        LET bins == Arange(start_time, end_time + w, w)
            digitized == [j \in 1..Len(timestamps) |-> Digitize(timestamps[j], bins)]
            bits_per_second == [i \in 1..(Len(bins) - 1) |->
                ThroughputReduce(Masked(frame_sizes, digitized, i), w, r)]
            corrected == [i \in 1..Len(bits_per_second) |->
                SampleCorrect(bits_per_second[i], s)]
        IN Series(RelativeBinStarts(bins, start_time), corrected)

----------------------------------------------------------------------------
(* Summarizer: numpy reductions *)

FMean(s) == FDiv(FSum(s), FInt(Len(s)))

RECURSIVE FMax(_)
FMax(s) == IF Len(s) = 1 THEN s[1]
           ELSE LET m == FMax(Tail(s)) IN IF FLt(m, Head(s)) THEN Head(s) ELSE m

RECURSIVE FMin(_)
FMin(s) == IF Len(s) = 1 THEN s[1]
           ELSE LET m == FMin(Tail(s)) IN IF FLt(Head(s), m) THEN Head(s) ELSE m

RECURSIVE FInsert(_, _)
FInsert(x, s) ==
    IF s = <<>> THEN <<x>>
    ELSE IF FLt(x, Head(s)) THEN <<x>> \o s
    ELSE <<Head(s)>> \o FInsert(x, Tail(s))

RECURSIVE FSort(_)
FSort(s) == IF s = <<>> THEN <<>> ELSE FInsert(Head(s), FSort(Tail(s)))

FMedian(s) ==
    LET o == FSort(s)
        n == Len(o)
    IN IF n % 2 = 1 THEN o[(n + 1) \div 2]
       ELSE FDiv(FAdd(o[n \div 2], o[n \div 2 + 1]), FInt(2))

\* rtt[~np.isnan(rtt)]
RECURSIVE DropNaN(_)
DropNaN(s) ==
    IF s = <<>> THEN <<>>
    ELSE IF IsNaN(Head(s)) THEN DropNaN(Tail(s))
    ELSE <<Head(s)>> \o DropNaN(Tail(s))

\* np.nanmean / np.nanmax / np.nanmin / np.nanmedian skip the NaN entries
RECURSIVE NanSum(_)
NanSum(s) ==
    IF s = <<>> THEN FInt(0)
    ELSE IF IsNaN(Head(s)) THEN NanSum(Tail(s))
    ELSE FAdd(Head(s), NanSum(Tail(s)))

NanCount(s) == Cardinality({i \in 1..Len(s) : ~IsNaN(s[i])})

NanMean(s) == FDiv(NanSum(s), FInt(NanCount(s)))

NanMax(s) == FMax(DropNaN(s))

NanMin(s) == FMin(DropNaN(s))

NanMedian(s) == FMedian(DropNaN(s))

----------------------------------------------------------------------------
(* Summarizer: prepare_* *)

\* 'pps' not in data or data['pps'][0] is None or len(data['pps'][0]) == 0
SkipFile_nolen(entry) == entry.kind = "missing" \/ entry.kind = "none"

SkipFile(entry) ==
    entry.kind = "missing" \/ entry.kind = "none" \/ Len(entry.times) = 0

\* the exception the body of the loop hits on an entry that was not skipped
EntryRaises(entry) ==
    IF entry.kind = "missing" THEN "KeyError"
    ELSE IF entry.kind = "none" THEN "TypeError"
    ELSE IF Len(entry.vals) = 0 THEN "ValueError"
    ELSE "no"

Kept(fd, metric) == {f \in DOMAIN fd : ~SkipFile(fd[f][metric])}

Raising(fd, files, metric) == {f \in files : EntryRaises(fd[f][metric]) # "no"}

FirstExc(fd, files, metric) ==
    LET bad == Raising(fd, files, metric)
    IN IF bad = {} THEN "no"
       ELSE EntryRaises(fd[CHOOSE f \in bad : \A g \in bad : f <= g][metric])

\* times[-1] if len(times) > 0 else 0
Duration(times) == IF Len(times) > 0 THEN times[Len(times)] ELSE 0

\* analysis.py 89-111
prepare_packet_rate_data(fd, w, r) ==
    LET kept == Kept(fd, "pps")
        good == kept \ Raising(fd, kept, "pps")
    IN [exc |-> FirstExc(fd, kept, "pps"),
        info |-> [f \in good |->
            LET times == fd[f]["pps"].times
                pps == fd[f]["pps"].vals
            IN [times |-> times,
                vals |-> pps,
                duration |-> Duration(times),
                avg |-> FMean(pps),
                max |-> FMax(pps),
                min |-> NaN,
                median |-> NaN,
                total |-> FSum([i \in 1..Len(pps) |-> FMul(pps[i], Seconds(w, r))])]]]

\* analysis.py 113-143
prepare_rtt_data(fd) ==
    LET kept0 == Kept(fd, "rtt")
        good0 == kept0 \ Raising(fd, kept0, "rtt")
        good == {f \in good0 : Len(DropNaN(fd[f]["rtt"].vals)) # 0}
    IN [exc |-> FirstExc(fd, kept0, "rtt"),
        info |-> [f \in good |->
            LET times == fd[f]["rtt"].times
                rtt == fd[f]["rtt"].vals
            IN [times |-> times,
                vals |-> rtt,
                duration |-> Duration(times),
                avg |-> NanMean(rtt),
                max |-> NanMax(rtt),
                min |-> NanMin(rtt),
                median |-> NanMedian(rtt),
                total |-> NaN]]]

Mega == 1000000

\* analysis.py 145-171
prepare_throughput_data(fd, w, r) ==
    LET kept == Kept(fd, "throughput")
        good == kept \ Raising(fd, kept, "throughput")
    IN [exc |-> FirstExc(fd, kept, "throughput"),
        info |-> [f \in good |->
            LET times == fd[f]["throughput"].times
                throughput == fd[f]["throughput"].vals
                throughput_mbps ==
                    [i \in 1..Len(throughput) |-> FDiv(throughput[i], FInt(Mega))]
            IN [times |-> times,
                vals |-> throughput_mbps,
                duration |-> Duration(times),
                avg |-> FMean(throughput_mbps),
                max |-> FMax(throughput_mbps),
                min |-> NaN,
                median |-> NaN,
                total |-> FSum([i \in 1..Len(throughput) |->
                                    FMul(throughput[i], Seconds(w, r))])]]]

----------------------------------------------------------------------------
(* Summarizer: add_comparison_analysis *)

\* f"{x:.2f}" and f"{x:.0f}": x rounded half to even at 1/scale; nan and inf
\* both print as non-numbers
Fmt(x, scale) ==
    IF IsNaN(x) THEN NaN
    ELSE LET num == x.n * scale
             q == num \div x.d
             twice == 2 * (num % x.d)
             up == twice > x.d \/ (twice = x.d /\ q % 2 = 1)
         IN Frac(IF up THEN q + 1 ELSE q, scale)

FAbs(x) == [n |-> Abs(x.n), d |-> x.d]

FSub(x, y) == FAdd(x, [n |-> -y.n, d |-> y.d])

FirstKey(info) == CHOOSE f \in DOMAIN info : \A g \in DOMAIN info : f <= g

SecondKey(info) == CHOOSE f \in DOMAIN info : \A g \in DOMAIN info : g <= f

\* if len(file_info) == 2
RatioCount_atleast(n) == n >= 2

RatioCount(n) == n = 2

\* analysis.py 18-69: the per-metric listings and, for two files, the ratio
MetricLines(info, metric) ==
    LET files == DOMAIN info
        a == FirstKey(info)
        b == SecondKey(info)
    IN  {Line("average", <<f>>, Fmt(info[f].avg, 100)) : f \in files}
        \cup (IF RatioCount(Cardinality(files))
              THEN {Line("ratio", <<a, b>>, Fmt(FDiv(info[a].avg, info[b].avg), 100))}
              ELSE {})
        \cup (IF metric = "pps"
              THEN {Line("total", <<f>>, Fmt(info[f].total, 1)) : f \in files}
              ELSE IF metric = "rtt"
              THEN {Line("minimum", <<f>>, Fmt(info[f].min, 100)) : f \in files}
                   \cup {Line("maximum", <<f>>, Fmt(info[f].max, 100)) : f \in files}
              ELSE {Line("total", <<f>>,
                         Fmt(FDiv(FDiv(info[f].total, FInt(8)), FInt(Mega)), 100))
                        : f \in files})

\* analysis.py 71-87: durations, and the efficiency lines past one second
TimeLines(info, r) ==
    LET a == FirstKey(info)
        b == SecondKey(info)
        d0 == Seconds(info[a].duration, r)
        d1 == Seconds(info[b].duration, r)
        time_diff == FAbs(FSub(d0, d1))
        time_ratio == FDiv(d0, d1)
        faster_file == IF FLt(d0, d1) THEN a ELSE b
        slower_file == IF faster_file = a THEN b ELSE a
    IN  {Line("duration", <<a>>, Fmt(d0, 100)), Line("duration", <<b>>, Fmt(d1, 100))}
        \cup (IF FLt(One, time_diff)
              THEN {Line("faster", <<faster_file>>, Fmt(time_diff, 100)),
                    Line("time ratio", <<slower_file>>, Fmt(time_ratio, 100))}
              ELSE {})

\* analysis.py 4-87: the lines add_comparison_analysis prints
comparison_lines(info, metric, r) ==
    IF Cardinality(DOMAIN info) < 2
    THEN {Msg("Skipping comparison analysis")}
    ELSE {Msg("COMPARISON ANALYSIS")}
         \cup MetricLines(info, metric)
         \cup (IF Cardinality(DOMAIN info) = 2 THEN TimeLines(info, r) ELSE {})

----------------------------------------------------------------------------
(* Inputs *)

\* sampling fractions main() selects: compare.py 394-401
SampleRates == {Frac(1, 1), Frac(1, 2), Frac(1, 5), Frac(1, 10)}

\* per-row values: RTT in ms, frame length in bytes
RowValues == {0, 2}

Row == [t : 0..MaxT, v : RowValues]

RowSeqs == UNION {[1..n -> Row] : n \in 0..MaxLen}

StampRows(ts) == [i \in 1..Len(ts) |-> [t |-> ts[i], v |-> 1]]

\* the worked examples of the specification, in ticks of 1/res second
Examples ==
    { [rows |-> StampRows(<<0, 5, 12, 13, 29>>), w |-> 10, res |-> 10, s |-> Frac(1, 1)],
      [rows |-> <<[t |-> 0, v |-> 1000], [t |-> 3, v |-> 0]>>,
       w |-> 2, res |-> 1, s |-> Frac(1, 2)],
      [rows |-> <<[t |-> 11, v |-> 1], [t |-> 0, v |-> 2], [t |-> 5, v |-> 9],
                  [t |-> 1, v |-> 4]>>,
       w |-> 2, res |-> 1, s |-> Frac(1, 5)] }

\* calls with other values of the sample_rate parameter: utils.py 10, any float
ConfigInputs ==
    [rows : {StampRows(<<0, 3>>), StampRows(<<1, 2, 4>>)}, w : {1}, res : {1},
     s : {Frac(3, 10), Frac(3, 4)}]

Inputs ==
    [rows : RowSeqs, w : 1..MaxW, res : {1}, s : SampleRates]
        \cup Examples \cup ConfigInputs

Files == {1, 2}

Metrics == <<"pps", "rtt", "throughput">>

NoReturn ==
    [metric |-> "none", status |-> "unset", kind |-> "unset",
     times |-> <<>>, vals |-> <<>>]

NoInfo == [metric |-> "none", exc |-> "no", info |-> <<>>]

EmptyResults == [pps |-> Missing, rtt |-> Missing, throughput |-> Missing]

\* the return value of one calculate_* call and the tool outcome it came from
Returned(metric, status, r) ==
    [metric |-> metric, status |-> status, kind |-> r.kind,
     times |-> r.times, vals |-> r.vals]

Entry(r) == [kind |-> r.kind, times |-> r.times, vals |-> r.vals]

\* if times is not None: file_results[metric] = (times, values)
Store(file_results, metric, r) ==
    IF r.kind # "series" THEN file_results
    ELSE [file_results EXCEPT ![metric] = Entry(r)]

----------------------------------------------------------------------------
(* Extractor: the text tshark writes and its parsing *)

\* a line of stdout is a sequence of tokens: a double quote, a comma, the
\* digits of one number, or a field name of the header
Quote == [c |-> "quote", x |-> NaN]

Comma == [c |-> "comma", x |-> NaN]

Num(x) == [c |-> "num", x |-> x]

Name == [c |-> "name", x |-> NaN]

\* ack_rtt is printed in seconds: float(rtt_str) * 1000 is the RTT in ms
MsPerSecond == 1000

\* -T fields -E separator=, -E header=y -E quote=d: a header line, then one
\* line per packet with every field between double quotes
HeaderLine(metric) == IF metric = "pps" THEN <<Name>> ELSE <<Name, Comma, Name>>

DataLine(metric, row, r) ==
    IF metric = "pps" THEN <<Quote, Num(Seconds(row.t, r)), Quote>>
    ELSE <<Quote, Num(Seconds(row.t, r)), Quote, Comma,
           Quote, Num(IF metric = "rtt" THEN Frac(row.v, MsPerSecond) ELSE FInt(row.v)),
           Quote>>

\* stdout of a run that succeeded; a silent run wrote nothing at all
ToolOutput(metric, status, rs, r) ==
    IF status = "silent" THEN <<>>
    ELSE <<HeaderLine(metric)>> \o [i \in 1..Len(rs) |-> DataLine(metric, rs[i], r)]

\* result.stdout.strip().split('\n'): the empty text gives one empty line
SplitLines(out) == IF out = <<>> THEN << <<>> >> ELSE out

\* if len(lines) > 1: for line in lines[1:]
DataLines_all(lines) == lines

DataLines(lines) == IF Len(lines) > 1 THEN Tail(lines) ELSE <<>>

RECURSIVE StripLeft(_)
StripLeft(f) ==
    IF f # <<>> /\ Head(f).c = "quote" THEN StripLeft(Tail(f)) ELSE f

RECURSIVE StripRight(_)
StripRight(f) ==
    IF f # <<>> /\ f[Len(f)].c = "quote"
    THEN StripRight(SubSeq(f, 1, Len(f) - 1)) ELSE f

\* field.strip().strip('"\'')
StripQuotes(f) == StripRight(StripLeft(f))

HasComma(line) == \E i \in 1..Len(line) : line[i].c = "comma"

\* line.split(',')
RECURSIVE Split(_)
Split(line) ==
    IF ~HasComma(line) THEN <<line>>
    ELSE LET k == CHOOSE i \in 1..Len(line) :
                    /\ line[i].c = "comma"
                    /\ \A j \in 1..(i - 1) : line[j].c # "comma"
         IN <<SubSeq(line, 1, k - 1)>> \o Split(SubSeq(line, k + 1, Len(line)))

\* float(text), int(text): ValueError unless the text is one number
ToFloat(f) ==
    IF Len(f) = 1 /\ f[1].c = "num" THEN [ok |-> TRUE, x |-> f[1].x]
    ELSE [ok |-> FALSE, x |-> NaN]

\* the tick of a timestamp in seconds
ToTick(x, r) == (x.n * r) \div x.d

\* packet_processing.py 32-41: a line that is no number raises ValueError
RECURSIVE ParseStamps(_, _)
ParseStamps(ls, r) ==
    IF ls = <<>> THEN [exc |-> "no", rows |-> <<>>]
    ELSE LET line == Head(ls)
             x == ToFloat(StripQuotes(line))
             rest == ParseStamps(Tail(ls), r)
         IN IF line = <<>> THEN rest
            ELSE IF ~x.ok THEN [exc |-> "ValueError", rows |-> <<>>]
            ELSE IF rest.exc # "no" THEN rest
            ELSE [exc |-> "no",
                  rows |-> <<[t |-> ToTick(x.x, r), v |-> 1]>> \o rest.rows]

\* the value of the second field: RTT in ms, frame length in bytes
FieldValue(metric, x) ==
    IF metric = "rtt" THEN FMul(x, FInt(MsPerSecond)).n ELSE x.n

\* packet_processing.py 122-139, 215-232: a line without two parsable fields
\* is passed over; the timestamp is appended before the value is parsed, so a
\* bad value leaves the two lists with different lengths
RECURSIVE ParsePairs(_, _, _)
ParsePairs(metric, ls, r) ==
    IF ls = <<>> THEN [exc |-> "no", rows |-> <<>>]
    ELSE LET line == Head(ls)
             parts == Split(line)
             rest == ParsePairs(metric, Tail(ls), r)
         IN IF line = <<>> \/ ~HasComma(line) THEN rest
            ELSE IF parts[1] = <<>> \/ parts[2] = <<>> THEN rest
            ELSE LET time == ToFloat(StripQuotes(parts[1]))
                     val == ToFloat(StripQuotes(parts[2]))
                 IN IF ~time.ok THEN rest
                    ELSE IF ~val.ok THEN [exc |-> "IndexError", rows |-> <<>>]
                    ELSE IF rest.exc # "no" THEN rest
                    ELSE [exc |-> "no",
                          rows |-> <<[t |-> ToTick(time.x, r),
                                      v |-> FieldValue(metric, val.x)]>>
                                   \o rest.rows]

\* the samples an extractor reads from stdout
Parse(metric, out, r) ==
    IF metric = "pps" THEN ParseStamps(DataLines(SplitLines(out)), r)
    ELSE ParsePairs(metric, DataLines(SplitLines(out)), r)

----------------------------------------------------------------------------
(* The calculate_* functions: tool run, then binning *)

\* outcome of subprocess.run: exit status 0, non-zero, or tshark not found
ToolStatus == {"ok", "nonzero", "notfound"}

\* a run that matched no packet may also succeed without writing anything
StatusesFor(rs) == IF rs = <<>> THEN ToolStatus \cup {"silent"} ELSE ToolStatus

\* an exception that leaves the function
RaiseResult == [kind |-> "raise", times |-> <<>>, vals |-> <<>>]

ExitResult == [kind |-> "exit", times |-> <<>>, vals |-> <<>>]

NoCommand == [field |-> "none", decimate |-> FALSE, stride |-> 0]

\* filter_cmd: field if sample_rate >= 1.0
\*             else field and (frame.number % int(1/sample_rate) == 0)
FilterCmd(field, s) ==
    IF FLe(One, s) THEN [field |-> field, decimate |-> FALSE, stride |-> 0]
    ELSE LET inverse == FDiv(One, s)
         IN [field |-> field, decimate |-> TRUE, stride |-> inverse.n \div inverse.d]

FilterField(metric) ==
    IF metric = "pps" THEN "tcp"
    ELSE IF metric = "rtt" THEN "tcp.analysis.ack_rtt"
    ELSE "tcp"

\* the error line a calculate_* call prints before it returns or exits
ErrorLines(metric, status, r) ==
    IF status = "notfound"
    THEN IF r.kind = "exit" THEN {Msg("TShark not found")}
         ELSE {Msg("Error processing file")}
    ELSE IF status = "nonzero" THEN {Msg("Error running tshark")}
    ELSE IF r.kind = "none" THEN {Msg("Error processing file")}
    ELSE IF r.kind = "raise" THEN {}
    ELSE IF r.times = <<>> THEN {Msg("No data found")}
    ELSE {}

\* packet_processing.py 6-93
packets_per_second_result(status, rs, w, r, s) ==
    IF status = "notfound" THEN ExitResult
    ELSE IF status = "nonzero" THEN NoneResult
    ELSE LET parsed == Parse("pps", ToolOutput("pps", status, rs, r), r)
         IN IF parsed.exc # "no" THEN NoneResult
            ELSE PacketRateSeries(parsed.rows, w, r, s)

\* packet_processing.py 95-186
rtt_result(status, rs, w, r, s) ==
    IF status \in {"notfound", "nonzero"} THEN NoneResult
    ELSE LET parsed == Parse("rtt", ToolOutput("rtt", status, rs, r), r)
         IN IF parsed.exc # "no" THEN RaiseResult
            ELSE RttSeries(parsed.rows, w, r, s)

\* packet_processing.py 188-285
throughput_result(status, rs, w, r, s) ==
    IF status \in {"notfound", "nonzero"} THEN NoneResult
    ELSE LET parsed == Parse("throughput", ToolOutput("throughput", status, rs, r), r)
         IN IF parsed.exc # "no" THEN RaiseResult
            ELSE ThroughputSeries(parsed.rows, w, r, s)

----------------------------------------------------------------------------
(* Renderer of pcap_analyzer: plot_*_comparison *)

PlotNames(metric) ==
    IF metric = "pps" THEN {"packet_rate_normalized", "packet_rate_log"}
    ELSE IF metric = "rtt" THEN {"rtt_normalized", "rtt_log"}
    ELSE {"throughput_normalized", "throughput_log"}

\* normalized_times = info['times'] / info['duration'] * 100
NormalizedTimes(times, duration) ==
    [i \in 1..Len(times) |-> FMul(FDiv(FInt(times[i]), FInt(duration)), FInt(100))]

\* the floor of the log-scale view
LogFloor == Frac(1, 100)

\* values = info[y_metric].copy(); values[values <= 0] = 0.01
LogValues_zero(vals) ==
    [i \in 1..Len(vals) |->
        IF IsNaN(vals[i]) \/ FLe(vals[i], FInt(0)) THEN LogFloor ELSE vals[i]]

LogValues(vals) ==
    [i \in 1..Len(vals) |->
        IF ~IsNaN(vals[i]) /\ FLe(vals[i], FInt(0)) THEN LogFloor ELSE vals[i]]

\* one line of a figure: its x and y arrays and the duration annotation
Curve(plot, metric, f, x, y, duration, r) ==
    [plot |-> plot, metric |-> metric, file |-> f, x |-> x, y |-> y,
     note |-> IF Len(y) > 0 THEN Fmt(Seconds(duration, r), 100) ELSE NaN]

NormalizedName(metric) ==
    IF metric = "pps" THEN "packet_rate_normalized"
    ELSE IF metric = "rtt" THEN "rtt_normalized"
    ELSE "throughput_normalized"

LogName(metric) ==
    IF metric = "pps" THEN "packet_rate_log"
    ELSE IF metric = "rtt" THEN "rtt_log"
    ELSE "throughput_log"

\* plotting.py 57-106
plot_normalized_view(info, plot, metric, r) ==
    {Curve(plot, metric, f,
           NormalizedTimes(info[f].times, info[f].duration),
           info[f].vals, info[f].duration, r) : f \in DOMAIN info}

\* the array info[y_metric] holds once the log view has run: the floor is
\* assigned into values, which is info[y_metric].copy(), a fresh array
HeldAfterFloor_nocopy(vals) == LogValues(vals)

HeldAfterFloor(vals) == vals

\* file_info as the two views leave it: neither assigns to a key of info, and
\* times / duration * 100 and the log values are new arrays
InfoAfterViews(info) ==
    [f \in DOMAIN info |-> [info[f] EXCEPT !.vals = HeldAfterFloor(@)]]

\* file_data as the views leave it: info['pps'] and info['rtt'] are the arrays
\* of data['pps'] and data['rtt'] themselves (times, pps = data['pps']), while
\* info['throughput'] is the new array throughput / 1_000_000
DataAfterViews(fd, metric, info) ==
    [f \in DOMAIN fd |->
        IF f \in DOMAIN info /\ metric \in {"pps", "rtt"}
        THEN [fd[f] EXCEPT ![metric].vals = info[f].vals]
        ELSE fd[f]]

\* plotting.py 108-161
plot_log_scale_view(info, plot, metric, r) ==
    {Curve(plot, metric, f,
           NormalizedTimes(info[f].times, info[f].duration),
           LogValues(info[f].vals), info[f].duration, r) : f \in DOMAIN info}

\* if not file_info: print(...); return
NothingToPlot(info) == DOMAIN info = {}

\* plotting.py 163-230: prepare, return if nothing is left, else both views
PlotComparison(metric, p, r) ==
    LET skip == p.exc # "no" \/ NothingToPlot(p.info)
    IN [metric |-> metric,
        exc |-> p.exc,
        info |-> IF skip THEN p.info ELSE InfoAfterViews(p.info),
        lines |-> IF p.exc = "no" /\ NothingToPlot(p.info)
                  THEN {Msg("No data to plot")} ELSE {},
        plots |-> IF skip THEN {} ELSE PlotNames(metric),
        curves |-> IF skip THEN {}
                   ELSE plot_normalized_view(p.info, NormalizedName(metric), metric, r)
                        \cup plot_log_scale_view(p.info, LogName(metric), metric, r)]

\* not pps_info or not rtt_info or not throughput_info
CombinedSkipped_any(pps_info, rtt_info, throughput_info) ==
    DOMAIN pps_info = {} /\ DOMAIN rtt_info = {} /\ DOMAIN throughput_info = {}

CombinedSkipped(pps_info, rtt_info, throughput_info) ==
    DOMAIN pps_info = {} \/ DOMAIN rtt_info = {} \/ DOMAIN throughput_info = {}

\* plotting.py 232-320
PlotCombined(fd, w, r) ==
    LET pps_p == prepare_packet_rate_data(fd, w, r)
        rtt_p == prepare_rtt_data(fd)
        throughput_p == prepare_throughput_data(fd, w, r)
        exc == IF pps_p.exc # "no" THEN pps_p.exc
               ELSE IF rtt_p.exc # "no" THEN rtt_p.exc
               ELSE throughput_p.exc
        skip == exc # "no" \/ CombinedSkipped(pps_p.info, rtt_p.info, throughput_p.info)
    IN [metric |-> "combined",
        exc |-> exc,
        info |-> <<>>,
        lines |-> IF exc = "no" /\ skip THEN {Msg("Missing data for combined plot")}
                  ELSE {},
        plots |-> IF skip THEN {} ELSE {"combined_normalized"},
        curves |-> IF skip THEN {}
                   ELSE plot_normalized_view(pps_p.info, "combined_normalized", "pps", r)
                        \cup plot_normalized_view(rtt_p.info, "combined_normalized",
                                                  "rtt", r)
                        \cup plot_normalized_view(throughput_p.info,
                                                  "combined_normalized", "throughput", r)]

----------------------------------------------------------------------------
(* Spec: one capture, one calculate_* call, then its plot_*_comparison *)

\* find_pcapng_files: None when the directory is missing, else the list
NoListing == [isdir |-> FALSE, sizes |-> <<>>]

IdleMain ==
    /\ file_data = [f \in Files |-> EmptyResults]
    /\ sample_rates = [f \in Files |-> Frac(1, 1)]
    /\ cur = 0

Idle ==
    /\ filter_cmd = NoCommand
    /\ pcap_files = NoListing
    /\ printed = {}
    /\ drawn = {}
    /\ durations = <<>>

Init ==
    /\ pc = "call"
    /\ \E i \in Inputs :
        /\ rows = i.rows
        /\ time_interval = i.w
        /\ res = i.res
        /\ sample_rate = i.s
    /\ ret = NoReturn
    /\ file_info = NoInfo
    /\ rendered = {}
    /\ raised = "no"
    /\ IdleMain
    /\ Idle

Return(r) ==
    /\ ret' = r
    /\ filter_cmd' = FilterCmd(FilterField(r.metric), sample_rate)
    /\ printed' = printed \cup ErrorLines(r.metric, r.status, r)
    /\ pc' = IF r.kind = "exit" THEN "exited"
             ELSE IF r.kind = "raise" THEN "raised"
             ELSE "returned"
    /\ UNCHANGED <<rows, time_interval, res, sample_rate, file_info,
                   file_data, sample_rates, cur, rendered, raised,
                   pcap_files, drawn, durations>>

calculate_tcp_packets_per_second ==
    /\ pc = "call"
    /\ \E status \in StatusesFor(rows) :
        Return(Returned("pps", status,
            packets_per_second_result(status, rows, time_interval, res, sample_rate)))

calculate_tcp_rtt ==
    /\ pc = "call"
    /\ \E status \in StatusesFor(rows) :
        Return(Returned("rtt", status,
            rtt_result(status, rows, time_interval, res, sample_rate)))

calculate_tcp_throughput ==
    /\ pc = "call"
    /\ \E status \in StatusesFor(rows) :
        Return(Returned("throughput", status,
            throughput_result(status, rows, time_interval, res, sample_rate)))

\* the dict a driver builds from the call's return value
CallData == [f \in {1} |-> Store(EmptyResults, ret.metric, ret)]

\* the driver holds the results of its files and may call the plot functions
OnResults == pc \in {"loaded", "views"}

\* the file_data a plot function is called with
PlotData == IF OnResults THEN file_data ELSE CallData

CanPlot(metric) == IF OnResults THEN TRUE ELSE pc = "returned" /\ ret.metric = metric

Plotted(p) ==
    /\ file_info' = [metric |-> p.metric, exc |-> p.exc, info |-> p.info]
    /\ rendered' = rendered \cup p.plots
    /\ drawn' = drawn \cup p.curves
    /\ printed' = printed \cup p.lines
    /\ raised' = p.exc
    /\ file_data' = IF OnResults THEN DataAfterViews(file_data, p.metric, p.info)
                     ELSE file_data
    /\ pc' = IF p.exc # "no" THEN "raised"
             ELSE IF pc = "views" THEN "views"
             ELSE "plotted"
    /\ UNCHANGED <<rows, time_interval, res, sample_rate, ret,
                   sample_rates, cur, filter_cmd, pcap_files, durations>>

plot_packet_rate_comparison ==
    /\ CanPlot("pps")
    /\ Plotted(PlotComparison("pps",
                 prepare_packet_rate_data(PlotData, time_interval, res), res))

plot_rtt_comparison ==
    /\ CanPlot("rtt")
    /\ Plotted(PlotComparison("rtt", prepare_rtt_data(PlotData), res))

plot_throughput_comparison ==
    /\ CanPlot("throughput")
    /\ Plotted(PlotComparison("throughput",
                 prepare_throughput_data(PlotData, time_interval, res), res))

Next ==
    \/ calculate_tcp_packets_per_second
    \/ calculate_tcp_rtt
    \/ calculate_tcp_throughput
    \/ plot_packet_rate_comparison
    \/ plot_rtt_comparison
    \/ plot_throughput_comparison

Spec == Init /\ [][Next]_vars

----------------------------------------------------------------------------
(* SpecMain: compare.py main() over its two capture files *)

\* compare.py 11: TIME_INTERVAL = 1.0
TIME_INTERVAL == 1

\* tool outputs of the two-file run
MainRowSeqs ==
    { <<>>,
      <<[t |-> 1, v |-> 1]>>,
      <<[t |-> 0, v |-> 1], [t |-> 2, v |-> 1]>> }

NumExtractions == 6

CurFile == (cur \div 3) + 1

CurMetric == Metrics[(cur % 3) + 1]

\* compare.py 394-401: size thresholds in bytes
GB == 1000000000

MB500 == 500000000

MB200 == 200000000

\* sizes around every threshold
FileSizes == {MB200, MB200 + 1, MB500, MB500 + 1, GB, GB + 1}

\* what find_pcapng_files can return: None, or the files (here their sizes)
Listings ==
    {NoListing} \cup
    {[isdir |-> TRUE, sizes |-> q] : q \in UNION {[1..n -> FileSizes] : n \in 0..MaxFiles}}

\* compare.py 390-401
SampleRateFor_inclusive(size) ==
    IF size >= GB THEN Frac(1, 10)
    ELSE IF size >= MB500 THEN Frac(1, 5)
    ELSE IF size >= MB200 THEN Frac(1, 2)
    ELSE Frac(1, 1)

SampleRateFor(size) ==
    IF size > GB THEN Frac(1, 10)
    ELSE IF size > MB500 THEN Frac(1, 5)
    ELSE IF size > MB200 THEN Frac(1, 2)
    ELSE Frac(1, 1)

\* compare.py 376-383: not pcap_files, len(pcap_files) != 2
WrongCount_min(listing) == ~listing.isdir \/ Len(listing.sizes) < 2

WrongCount(listing) == ~listing.isdir \/ Len(listing.sizes) # 2

\* the lines printed on the way to the early return
UsageLines(listing) ==
    IF ~listing.isdir
    THEN {Msg("Directory not found"), Msg("No .pcapng files found")}
    ELSE IF listing.sizes = <<>> THEN {Msg("No .pcapng files found")}
    ELSE {Msg("Expected exactly 2 .pcapng files")}

InitMain ==
    /\ pc = "start"
    /\ rows = <<>>
    /\ time_interval = TIME_INTERVAL
    /\ res = 1
    /\ sample_rate = Frac(1, 1)
    /\ ret = NoReturn
    /\ file_info = NoInfo
    /\ file_data = [f \in Files |-> EmptyResults]
    /\ sample_rates = <<>>
    /\ cur = 0
    /\ rendered = {}
    /\ raised = "no"
    /\ filter_cmd = NoCommand
    /\ pcap_files \in Listings
    /\ printed = {}
    /\ drawn = {}
    /\ durations = <<>>

\* compare.py 372-407: discovery, the count check, the per-file sampling rate
main_find_pcapng_files ==
    /\ pc = "start"
    /\ IF WrongCount(pcap_files)
       THEN /\ printed' = printed \cup UsageLines(pcap_files)
            /\ pc' = "usage_error"
            /\ UNCHANGED sample_rates
       ELSE /\ sample_rates' = [f \in Files |-> SampleRateFor(pcap_files.sizes[f])]
            /\ pc' = "extract"
            /\ UNCHANGED printed
    /\ UNCHANGED <<rows, time_interval, res, sample_rate, ret, file_info,
                   file_data, cur, rendered, raised, filter_cmd, pcap_files,
                   drawn, durations>>

\* compare.py 410-428: one call of the loop body and the store of its result
Extracted(r, rs) ==
    /\ ret' = r
    /\ rows' = rs
    /\ sample_rate' = sample_rates[CurFile]
    /\ IF r.kind \in {"exit", "raise"}
       THEN /\ pc' = IF r.kind = "exit" THEN "exited" ELSE "raised"
            /\ UNCHANGED <<file_data, cur>>
       ELSE /\ file_data' = [file_data EXCEPT ![CurFile] = Store(@, r.metric, r)]
            /\ cur' = cur + 1
            /\ pc' = IF cur + 1 = NumExtractions THEN "plot_pps" ELSE "extract"
    /\ filter_cmd' = FilterCmd(FilterField(r.metric), sample_rates[CurFile])
    /\ printed' = printed \cup ErrorLines(r.metric, r.status, r)
    /\ UNCHANGED <<time_interval, res, file_info, sample_rates, rendered, raised,
                   pcap_files, drawn, durations>>

ToolRows(status) == IF status = "ok" THEN MainRowSeqs ELSE {<<>>}

main_packet_rate ==
    /\ pc = "extract"
    /\ CurMetric = "pps"
    /\ \E status \in ToolStatus : \E rs \in ToolRows(status) :
        Extracted(Returned("pps", status, packets_per_second_result(status, rs,
                      time_interval, res, sample_rates[CurFile])), rs)

main_rtt ==
    /\ pc = "extract"
    /\ CurMetric = "rtt"
    /\ \E status \in ToolStatus : \E rs \in ToolRows(status) :
        Extracted(Returned("rtt", status, rtt_result(status, rs,
                      time_interval, res, sample_rates[CurFile])), rs)

main_throughput ==
    /\ pc = "extract"
    /\ CurMetric = "throughput"
    /\ \E status \in ToolStatus : \E rs \in ToolRows(status) :
        Extracted(Returned("throughput", status, throughput_result(status, rs,
                      time_interval, res, sample_rates[CurFile])), rs)

\* compare.py 311-312, 332-333, 353-354: times, values = data[metric]
LookupRaises(fd, metric) ==
    IF \E f \in DOMAIN fd : fd[f][metric].kind = "missing" THEN "KeyError" ELSE "no"

\* compare.py 307-370: one plot_*_comparison(results) call of main()
ComparePlot(metric, name, next) ==
    LET exc == LookupRaises(file_data, metric)
    IN  /\ raised' = exc
        /\ rendered' = IF exc = "no" THEN rendered \cup {name} ELSE rendered
        /\ pc' = IF exc = "no" THEN next ELSE "raised"
        /\ UNCHANGED <<rows, time_interval, res, sample_rate, ret, file_info,
                       file_data, sample_rates, cur, filter_cmd, pcap_files,
                       printed, drawn, durations>>

compare_plot_packet_rate_comparison ==
    /\ pc = "plot_pps"
    /\ ComparePlot("pps", "packet_rate_comparison", "plot_rtt")

compare_plot_rtt_comparison ==
    /\ pc = "plot_rtt"
    /\ ComparePlot("rtt", "rtt_comparison", "plot_throughput")

compare_plot_throughput_comparison ==
    /\ pc = "plot_throughput"
    /\ ComparePlot("throughput", "throughput_comparison", "done")

NextMain ==
    \/ main_find_pcapng_files
    \/ main_packet_rate
    \/ main_rtt
    \/ main_throughput
    \/ compare_plot_packet_rate_comparison
    \/ compare_plot_rtt_comparison
    \/ compare_plot_throughput_comparison

SpecMain == InitMain /\ [][NextMain]_vars

----------------------------------------------------------------------------
(* SpecReport: the summarizer and the renderer over the results of n files *)

\* utils.py 9: 'time_interval': 1.0
DEFAULT_TIME_INTERVAL == 1

\* the captures of the report are stamped in half seconds
HalfSeconds == 2

\* captures: the TCP packets [t, frame length] and the acks [t, RTT in ms]
Captures ==
    { [packets |-> <<>>, acks |-> <<>>],
      [packets |-> <<[t |-> 1, v |-> 2]>>, acks |-> <<>>],
      [packets |-> <<[t |-> 0, v |-> 2], [t |-> 5, v |-> 0]>>,
       acks |-> <<[t |-> 0, v |-> 2], [t |-> 5, v |-> -1]>>],
      [packets |-> <<[t |-> 0, v |-> 4], [t |-> 3, v |-> 2], [t |-> 9, v |-> 2]>>,
       acks |-> <<[t |-> 3, v |-> 3], [t |-> 10, v |-> 0]>>],
      [packets |-> <<[t |-> 0, v |-> 2], [t |-> 7, v |-> 2]>>,
       acks |-> <<[t |-> 0, v |-> 1], [t |-> 7, v |-> 1]>>],
      [packets |-> <<[t |-> 2, v |-> 2], [t |-> 6, v |-> 2]>>,
       acks |-> <<[t |-> 2, v |-> 1]>>] }

\* a capture, the metrics whose extraction failed, and what the driver kept
\* for them: no key, or the (None, None) pair
FileCases ==
    {[packets |-> c.packets, acks |-> c.acks, lost |-> {}, how |-> "missing"]
        : c \in Captures}
    \cup
    { [packets |-> <<[t |-> 0, v |-> 2], [t |-> 5, v |-> 0]>>,
       acks |-> <<[t |-> 0, v |-> 2], [t |-> 5, v |-> -1]>>,
       lost |-> {"pps"}, how |-> "missing"],
      [packets |-> <<[t |-> 0, v |-> 4], [t |-> 3, v |-> 2], [t |-> 9, v |-> 2]>>,
       acks |-> <<[t |-> 3, v |-> 3], [t |-> 10, v |-> 0]>>,
       lost |-> {"pps", "rtt", "throughput"}, how |-> "none"],
      [packets |-> <<[t |-> 0, v |-> 2], [t |-> 7, v |-> 2]>>,
       acks |-> <<[t |-> 0, v |-> 1], [t |-> 7, v |-> 1]>>,
       lost |-> {"rtt", "throughput"}, how |-> "none"] }

\* the results of one file
LoadedResults(c, w, r) ==
    LET lost == IF c.how = "none" THEN NoneResult ELSE Missing
    IN [pps |-> IF "pps" \in c.lost THEN lost
                ELSE PacketRateSeries(c.packets, w, r, One),
        rtt |-> IF "rtt" \in c.lost THEN lost
                ELSE RttSeries(c.acks, w, r, One),
        throughput |-> IF "throughput" \in c.lost THEN lost
                       ELSE ThroughputSeries(c.packets, w, r, One)]

\* the results dict of up to max files
LoadedData(max) ==
    UNION {{[f \in 1..n |-> LoadedResults(cases[f],
                                DEFAULT_TIME_INTERVAL * HalfSeconds, HalfSeconds)]
              : cases \in [1..n -> FileCases]} : n \in 0..max}

\* the driver after the extraction of every file, before any report
Loaded(max) ==
    /\ rows = <<>>
    /\ time_interval = DEFAULT_TIME_INTERVAL * HalfSeconds
    /\ res = HalfSeconds
    /\ sample_rate = Frac(1, 1)
    /\ ret = NoReturn
    /\ file_info = NoInfo
    /\ file_data \in LoadedData(max)
    /\ sample_rates = <<>>
    /\ cur = 0
    /\ rendered = {}
    /\ raised = "no"
    /\ Idle

InitReport == pc = "loaded" /\ Loaded(MaxFiles)

Prepare(metric, fd, w, r) ==
    IF metric = "pps" THEN prepare_packet_rate_data(fd, w, r)
    ELSE IF metric = "rtt" THEN prepare_rtt_data(fd)
    ELSE prepare_throughput_data(fd, w, r)

\* file_info = prepare_*(file_data); add_comparison_analysis(file_info, metric)
add_comparison_analysis ==
    /\ pc = "loaded"
    /\ \E metric \in {"pps", "rtt", "throughput"} :
        LET p == Prepare(metric, file_data, time_interval, res)
        IN  /\ file_info' = [metric |-> metric, exc |-> p.exc, info |-> p.info]
            /\ raised' = p.exc
            /\ printed' = IF p.exc = "no"
                          THEN printed \cup comparison_lines(p.info, metric, res)
                          ELSE printed
            /\ pc' = IF p.exc = "no" THEN "analysed" ELSE "raised"
    /\ UNCHANGED <<rows, time_interval, res, sample_rate, ret, file_data,
                   sample_rates, cur, rendered, filter_cmd, pcap_files, drawn, durations>>

\* duration > durations[filename]
Longer_shorter(duration, held) == duration < held

Longer(duration, held) == duration > held

\* utils.py 43-56: durations after the first k metric types of the outer loop
RECURSIVE GetDurations(_, _)
GetDurations(fd, k) ==
    IF k = 0 THEN <<>>
    ELSE LET held == GetDurations(fd, k - 1)
             metric_type == Metrics[k]
             set == {f \in Kept(fd, metric_type) :
                        \/ f \notin DOMAIN held
                        \/ Longer(Duration(fd[f][metric_type].times), held[f])}
         IN [f \in DOMAIN held \cup set |->
                IF f \in set THEN Duration(fd[f][metric_type].times) ELSE held[f]]

get_durations ==
    /\ pc = "loaded"
    /\ durations' = GetDurations(file_data, Len(Metrics))
    /\ pc' = "measured"
    /\ UNCHANGED <<rows, time_interval, res, sample_rate, ret, file_info, file_data,
                   sample_rates, cur, rendered, raised, filter_cmd, pcap_files,
                   printed, drawn>>

plot_combined_normalized ==
    /\ OnResults
    /\ Plotted(PlotCombined(file_data, time_interval, res))

NextReport ==
    \/ add_comparison_analysis
    \/ get_durations
    \/ plot_packet_rate_comparison
    \/ plot_rtt_comparison
    \/ plot_throughput_comparison
    \/ plot_combined_normalized

SpecReport == InitReport /\ [][NextReport]_vars

----------------------------------------------------------------------------
(* SpecViews: the plot functions called one after another on the same results *)

InitViews == pc = "views" /\ Loaded(MaxViewFiles)

NextViews ==
    \/ plot_packet_rate_comparison
    \/ plot_rtt_comparison
    \/ plot_throughput_comparison
    \/ plot_combined_normalized

SpecViews == InitViews /\ [][NextViews]_vars

----------------------------------------------------------------------------
(* Vocabulary of the properties *)

Stamps(rs) == {rs[i].t : i \in 1..Len(rs)}

FirstStamp(rs) == CHOOSE t \in Stamps(rs) : \A u \in Stamps(rs) : t <= u

LastStamp(rs) == CHOOSE t \in Stamps(rs) : \A u \in Stamps(rs) : u <= t

Span(rs) == LastStamp(rs) - FirstStamp(rs)

\* indices of the samples in the half-open bin [t0 + (k-1)w, t0 + kw), k = 1, 2, ...
InBin(rs, k, w) ==
    {i \in 1..Len(rs) : /\ FirstStamp(rs) + (k - 1) * w <= rs[i].t
                        /\ rs[i].t < FirstStamp(rs) + k * w}

ValueSum(rs, S) == SumSeq([i \in 1..Len(rs) |-> IF i \in S THEN rs[i].v ELSE 0])

Got(metric) == ret.metric = metric /\ ret.kind = "series"

NonDegenerate == rows # <<>> /\ Span(rows) > 0

W == Seconds(time_interval, res)

\* sum over the bins of value * s * w
Undone == FSum([i \in 1..Len(ret.vals) |-> FMul(FMul(ret.vals[i], sample_rate), W)])

Defined(vals) == SelectSeq(vals, LAMBDA x : ~IsNaN(x))

ZeroFilled(vals) == [i \in 1..Len(vals) |-> IF IsNaN(vals[i]) THEN FInt(0) ELSE vals[i]]

----------------------------------------------------------------------------
(* C1 *)

\* C1 as stated: for every non-empty input, every w and every s, the sum over
\* the bins of value * s * w of the packet-rate series is the number of samples.
C1_AnyInput ==
    (Got("pps") /\ rows # <<>>) => Undone = FInt(Len(rows))

\* C1 amended: for every input with t1 > t0 the sum over the bins of
\* value * s * w is the number of samples; for degenerate input (t1 = t0) the
\* single bin holds the raw sample count N, with no division by s or w.
C1_CountPreserved ==
    (Got("pps") /\ rows # <<>>) =>
        IF Span(rows) > 0
        THEN Undone = FInt(Len(rows))
        ELSE ret.vals = <<FInt(Len(rows))>>

C1_Witness ==
    /\ Got("pps")
    /\ Len(rows) = 2
    /\ Span(rows) = 2 * time_interval
    /\ sample_rate = Frac(1, 5)
    /\ Undone = FInt(2)

----------------------------------------------------------------------------
(* C2 *)

\* C2: for the RTT and throughput binners with t1 > t0 the bins are the
\* half-open intervals [t0 + kw, t0 + (k+1)w) for every k whose start does not
\* exceed t1, and every sample, those at t1 included, lies in one of them.
C2_EverySampleBinned ==
    \A metric \in {"rtt", "throughput"} :
        (Got(metric) /\ NonDegenerate) =>
            /\ Len(ret.times) = (Span(rows) \div time_interval) + 1
            /\ \A i \in 1..Len(rows) :
                ((rows[i].t - FirstStamp(rows)) \div time_interval) + 1
                    \in 1..Len(ret.times)

----------------------------------------------------------------------------
(* C3 *)

\* C3: for every non-empty input and each binner the offsets start at 0, are
\* strictly increasing and uniformly spaced by w, offset i being the start of
\* bin i minus the smallest sample timestamp.
C3_Offsets ==
    (ret.kind = "series" /\ rows # <<>>) =>
        /\ Len(ret.times) >= 1
        /\ Len(ret.vals) = Len(ret.times)
        /\ ret.times[1] = 0
        /\ \A i \in 1..(Len(ret.times) - 1) :
            /\ ret.times[i] < ret.times[i + 1]
            /\ ret.times[i + 1] - ret.times[i] = time_interval
        /\ \A i \in 1..Len(ret.times) :
            FirstStamp(rows) + ret.times[i] = FirstStamp(rows) + (i - 1) * time_interval

C3_Witness ==
    /\ Got("rtt")
    /\ rows # <<>>
    /\ FirstStamp(rows) > 0
    /\ Len(ret.times) >= 2

----------------------------------------------------------------------------
(* C4 *)

\* C4: for every input with t1 > t0 the packet-rate value of bin k is the
\* number of samples whose timestamp falls in [t0 + kw, t0 + (k+1)w), divided
\* by s and by w; a bin without samples has the value 0.
C4_RatePerBin ==
    (Got("pps") /\ NonDegenerate) =>
        \A k \in 1..Len(ret.vals) :
            ret.vals[k] =
                FDiv(FDiv(FInt(Cardinality(InBin(rows, k, time_interval))),
                          sample_rate), W)

----------------------------------------------------------------------------
(* C5 *)

\* C5: for every input with t1 > t0 the throughput value of bin k is the sum
\* of the frame lengths of the samples in the bin, times 8, divided by s and
\* by w; a bin without samples has the value 0.
C5_ThroughputPerBin ==
    (Got("throughput") /\ NonDegenerate) =>
        \A k \in 1..Len(ret.vals) :
            LET members == InBin(rows, k, time_interval)
            IN  /\ ret.vals[k] =
                     FDiv(FDiv(FInt(ValueSum(rows, members) * 8), sample_rate), W)
                /\ members = {} => ret.vals[k] = FInt(0)

\* a bin of 1000 bytes at s = 0.5: 1000 * 8 / 0.5 / w, twice the uncorrected value
C5_Witness ==
    /\ Got("throughput")
    /\ sample_rate = Frac(1, 2)
    /\ ValueSum(rows, InBin(rows, 1, time_interval)) = 1000
    /\ ret.vals[1] = FMul(FInt(2), FDiv(FInt(1000 * 8), W))

----------------------------------------------------------------------------
(* C6 *)

\* C6: an RTT bin without samples is NaN, never 0, and prepare_rtt_data takes
\* avg, min, max and median over the defined bins only: they are those of the
\* series with the NaN bins removed, and not those of the series with the NaN
\* bins read as 0 wherever the two differ.
C6_UndefinedExcluded ==
    /\ (Got("rtt") /\ NonDegenerate) =>
            \A k \in 1..Len(ret.vals) :
                /\ IsNaN(ret.vals[k]) <=> InBin(rows, k, time_interval) = {}
                /\ InBin(rows, k, time_interval) = {} => ret.vals[k] # FInt(0)
    /\ (pc = "plotted" /\ file_info.metric = "rtt" /\ 1 \in DOMAIN file_info.info) =>
            LET info == file_info.info[1]
                defined == Defined(ret.vals)
                zeroed == ZeroFilled(ret.vals)
                holes == Len(defined) < Len(ret.vals)
            IN  /\ info.avg = FMean(defined)
                /\ info.min = FMin(defined)
                /\ info.max = FMax(defined)
                /\ info.median = FMedian(defined)
                /\ (holes /\ FLt(FInt(0), info.avg)) => info.avg # FMean(zeroed)
                /\ (holes /\ FLt(FInt(0), info.min)) => info.min # FMin(zeroed)
                /\ (holes /\ FLt(FInt(0), info.median) /\ Len(defined) = 1)
                        => info.median # FMedian(zeroed)

C6_Witness ==
    /\ pc = "plotted"
    /\ file_info.metric = "rtt"
    /\ 1 \in DOMAIN file_info.info
    /\ \E k \in 1..Len(ret.vals) : IsNaN(ret.vals[k])
    /\ Len(Defined(ret.vals)) = 3
    /\ FLt(FInt(0), file_info.info[1].min)
    /\ file_info.info[1].median # file_info.info[1].avg

----------------------------------------------------------------------------
(* C7 *)

\* C7: one sample, or samples that all share one timestamp, give each binner
\* exactly one bin at offset 0 holding the reduction over all samples: the
\* count, the mean RTT, the total frame length times 8.
C7_Degenerate ==
    (ret.kind = "series" /\ rows # <<>> /\ Span(rows) = 0) =>
        /\ ret.times = <<0>>
        /\ ret.metric = "pps" => ret.vals = <<FInt(Len(rows))>>
        /\ ret.metric = "rtt" =>
             ret.vals = <<Frac(ValueSum(rows, 1..Len(rows)), Len(rows))>>
        /\ ret.metric = "throughput" =>
             ret.vals = <<FInt(ValueSum(rows, 1..Len(rows)) * 8)>>

C7_Witness ==
    /\ Got("throughput")
    /\ Len(rows) = 2
    /\ Span(rows) = 0
    /\ time_interval = 2
    /\ sample_rate = Frac(1, 2)
    /\ ret.vals = <<FInt(ValueSum(rows, 1..2) * 8)>>
    /\ ValueSum(rows, 1..2) > 0

----------------------------------------------------------------------------
(* C8 *)

\* C8: a successful tool run without samples yields the empty series, which
\* is neither the one-bin degenerate series nor the (None, None) result, and
\* prepare_* and plot_*_comparison skip it without raising.
C8_EmptySeries ==
    /\ (pc # "call" /\ ret.kind \notin {"none", "exit"}) =>
            /\ ret.kind = "series"
            /\ Len(ret.times) = 0 <=> rows = <<>>
            /\ Len(ret.vals) = Len(ret.times)
    /\ (pc \in {"plotted", "raised"} /\ ret.kind = "series" /\ rows = <<>>) =>
            /\ pc = "plotted"
            /\ raised = "no"
            /\ DOMAIN file_info.info = {}
            /\ rendered = {}

C8_Witness ==
    /\ pc = "plotted"
    /\ Got("rtt")
    /\ rows = <<>>
    /\ Entry(ret) = EmptySeries
    /\ Entry(ret) # NoneResult

----------------------------------------------------------------------------
(* C9 *)

\* C9: the division by s is applied to the packet counts and the byte sums
\* and never to RTT: calculate_tcp_rtt returns the same series for every s.
C9_RttUncorrected ==
    /\ Got("rtt") =>
            \A s2 \in SampleRates :
                Entry(ret) = RttSeries(rows, time_interval, res, s2)
    /\ (Got("pps") /\ NonDegenerate) =>
            \A k \in 1..Len(ret.vals) :
                ret.vals[k] =
                    FDiv(PacketRateSeries(rows, time_interval, res, One).vals[k],
                         sample_rate)
    /\ (Got("throughput") /\ NonDegenerate) =>
            \A k \in 1..Len(ret.vals) :
                ret.vals[k] =
                    FDiv(ThroughputSeries(rows, time_interval, res, One).vals[k],
                         sample_rate)

C9_Witness ==
    /\ Got("rtt")
    /\ NonDegenerate
    /\ sample_rate = Frac(1, 10)
    /\ \E k \in 1..Len(ret.vals) : ~IsNaN(ret.vals[k]) /\ FLt(FInt(0), ret.vals[k])

----------------------------------------------------------------------------
(* C10 *)

\* C10: when a (file, metric) extraction fails with a non-zero tool status the
\* combination contributes no series and the run continues: the rendering
\* stage completes for the other metrics and files without an exception.
C10_RunContinues ==
    /\ raised = "no"
    /\ pc # "raised"

----------------------------------------------------------------------------
(* C11 *)

\* C11: when tshark is not found, each of the three extractors ends the
\* process with the "TShark not found" message and an exit status; none of
\* them returns a (None, None) failure to a caller that goes on.
C11_ToolMissingFatal ==
    (pc # "call" /\ ret.status = "notfound") =>
        /\ pc = "exited"
        /\ ret.kind = "exit"
        /\ Msg("TShark not found") \in printed

----------------------------------------------------------------------------
(* C12 *)

\* the file of the last extraction main() made
LastFile == IF pc = "exited" THEN CurFile ELSE ((cur - 1) \div 3) + 1

\* C12: when the directory is missing or holds any number of .pcapng files
\* other than 2, main() prints the problem and returns: no tshark command has
\* been run, no result stored and no figure drawn, then or later.
C12_ExactlyTwoFiles ==
    (pc # "start" /\ (~pcap_files.isdir \/ Len(pcap_files.sizes) # 2)) =>
        /\ pc = "usage_error"
        /\ printed # {}
        /\ (pcap_files.isdir /\ Len(pcap_files.sizes) \in {1, 3})
                => Msg("Expected exactly 2 .pcapng files") \in printed
        /\ filter_cmd = NoCommand
        /\ ret = NoReturn
        /\ cur = 0
        /\ file_data = [f \in Files |-> EmptyResults]
        /\ rendered = {}
        /\ drawn = {}

C12_Witness ==
    /\ pc = "usage_error"
    /\ pcap_files.isdir
    /\ Len(pcap_files.sizes) = 3
    /\ Msg("Expected exactly 2 .pcapng files") \in printed

----------------------------------------------------------------------------
(* C13 *)

\* C13: the sampling fraction of a file is fixed by its size alone: 0.1 above
\* 1,000,000,000 bytes, 0.2 above 500,000,000, 0.5 above 200,000,000, else 1.0,
\* a size equal to a threshold taking the lower tier; every extraction of the
\* file is run with that fraction.
C13_SampleRateBySize ==
    (pc \notin {"start", "usage_error"}) =>
        /\ \A f \in Files :
            LET size == pcap_files.sizes[f]
                s == sample_rates[f]
            IN  /\ size > 1000000000 => s = Frac(1, 10)
                /\ (size <= 1000000000 /\ size > 500000000) => s = Frac(1, 5)
                /\ (size <= 500000000 /\ size > 200000000) => s = Frac(1, 2)
                /\ size <= 200000000 => s = Frac(1, 1)
        /\ ret # NoReturn =>
            /\ sample_rate = sample_rates[LastFile]
            /\ filter_cmd = FilterCmd(FilterField(ret.metric), sample_rates[LastFile])
            /\ ret.status = "ok" =>
                    \/ Entry(ret) = PacketRateSeries(rows, time_interval, res,
                                                     sample_rates[LastFile])
                    \/ Entry(ret) = RttSeries(rows, time_interval, res,
                                              sample_rates[LastFile])
                    \/ Entry(ret) = ThroughputSeries(rows, time_interval, res,
                                                     sample_rates[LastFile])

C13_Witness ==
    /\ pc = "extract"
    /\ cur = 5
    /\ pcap_files.sizes = <<1000000000, 200000001>>
    /\ sample_rates = <<Frac(1, 5), Frac(1, 2)>>
    /\ sample_rate = Frac(1, 2)
    /\ filter_cmd.stride = 2

----------------------------------------------------------------------------
(* C14 *)

Analysed(n) == pc = "analysed" /\ Cardinality(DOMAIN file_info.info) = n

\* the printed lines with a given text
Lines(text) == {l \in printed : l.line = text}

\* duration in seconds of a file of the analysed file_info
DurationOf(f) == Seconds(file_info.info[f].duration, res)

\* C14: for two files the time-efficiency lines are printed exactly when the
\* durations differ by more than one second; the file named as faster then is
\* the one with the shorter duration and the printed time ratio is the longer
\* duration over the shorter one, whichever file comes first.
C14_TimeEfficiency ==
    Analysed(2) =>
        LET a == FirstKey(file_info.info)
            b == SecondKey(file_info.info)
            shorter == IF FLt(DurationOf(b), DurationOf(a)) THEN b ELSE a
            longer == IF shorter = a THEN b ELSE a
            apart == FLt(One, FAbs(FSub(DurationOf(a), DurationOf(b))))
        IN  /\ (Lines("faster") # {} /\ Lines("time ratio") # {}) <=> apart
            /\ apart =>
                /\ \A l \in Lines("faster") : l.who = <<shorter>>
                /\ \A l \in Lines("time ratio") :
                    l.x = Fmt(FDiv(DurationOf(longer), DurationOf(shorter)), 100)

----------------------------------------------------------------------------
(* C15 *)

\* the ratio line of the analysed metric for the files a and b
RatioLine(a, b) ==
    Line("ratio", <<a, b>>,
         Fmt(FDiv(file_info.info[a].avg, file_info.info[b].avg), 100))

\* C15 as stated: with any number of files other than two the function only
\* reports that the comparison is skipped and prints no comparison output;
\* with two files the ratio is metric(first file) / metric(second file).
C15_TwoFilesOnly ==
    pc = "analysed" =>
        /\ ~Analysed(2) => printed = {Msg("Skipping comparison analysis")}
        /\ Analysed(2) =>
                Lines("ratio") = {RatioLine(FirstKey(file_info.info),
                                            SecondKey(file_info.info))}

\* C15 amended: with fewer than two files the function only reports that the
\* comparison is skipped; with two files the ratio is metric(first file) /
\* metric(second file); with more than two files it prints the per-file
\* listings of every file, without a ratio and without the time-efficiency
\* lines, and does not report the comparison as skipped.
C15_RatioForTwoFiles ==
    pc = "analysed" =>
        LET n == Cardinality(DOMAIN file_info.info)
        IN  /\ n < 2 => printed = {Msg("Skipping comparison analysis")}
            /\ n = 2 =>
                    Lines("ratio") = {RatioLine(FirstKey(file_info.info),
                                                SecondKey(file_info.info))}
            /\ n > 2 =>
                    /\ Msg("Skipping comparison analysis") \notin printed
                    /\ Msg("COMPARISON ANALYSIS") \in printed
                    /\ {l.who : l \in Lines("average")}
                            = {<<f>> : f \in DOMAIN file_info.info}
                    /\ Lines("ratio") = {}
                    /\ Lines("duration") = {}
                    /\ Lines("faster") = {}
                    /\ Lines("time ratio") = {}

C15_Witness ==
    /\ Analysed(3)
    /\ file_info.metric = "rtt"
    /\ Cardinality(Lines("average")) = 3
    /\ Lines("ratio") = {}

----------------------------------------------------------------------------
(* C16 *)

\* the files of file_data that hold a non-empty series for the metric
WithData(metric) ==
    {f \in DOMAIN file_data :
        /\ file_data[f][metric].kind = "series"
        /\ file_data[f][metric].times # <<>>}

\* the files drawn in a figure, for one metric
DrawnFiles(plot, metric) ==
    {c.file : c \in {d \in drawn : d.plot = plot /\ d.metric = metric}}

\* C16: no plot function raises.  A plot_*_comparison call draws, in both of
\* its figures, exactly the files that hold data for its metric, and draws
\* nothing and writes no figure when no file does; plot_combined_normalized
\* writes its figure exactly when each of the three metrics has data in some
\* file, and then draws exactly the files with data under each metric.
C16_SkipOnlyAffected ==
    /\ raised = "no"
    /\ pc # "raised"
    /\ (pc = "plotted" /\ file_info.metric \in {"pps", "rtt", "throughput"}) =>
            LET m == file_info.metric
            IN  /\ \A plot \in PlotNames(m) : DrawnFiles(plot, m) = WithData(m)
                /\ WithData(m) = {} => (rendered = {} /\ drawn = {})
                /\ WithData(m) # {} => rendered = PlotNames(m)
    /\ (pc = "plotted" /\ file_info.metric = "combined") =>
            LET complete == \A m \in {"pps", "rtt", "throughput"} : WithData(m) # {}
            IN  /\ rendered = IF complete THEN {"combined_normalized"} ELSE {}
                /\ ~complete => drawn = {}
                /\ complete =>
                        \A m \in {"pps", "rtt", "throughput"} :
                            DrawnFiles("combined_normalized", m) = WithData(m)

\* two files, the first without the 'pps' key: only the second is drawn
C16_Witness ==
    /\ pc = "plotted"
    /\ file_info.metric = "pps"
    /\ DOMAIN file_data = {1, 2}
    /\ file_data[1]["pps"].kind = "missing"
    /\ DrawnFiles("packet_rate_normalized", "pps") = {2}
    /\ DrawnFiles("packet_rate_log", "pps") = {2}
    /\ rendered = PlotNames("pps")

----------------------------------------------------------------------------
(* C17 *)

\* the offsets of the series a curve was drawn from
OffsetsOf(c) == file_data[c.file][c.metric].times

\* C17: in the normalized, log and combined figures the x values of every
\* file are its offsets divided by its own duration, times 100: they start at
\* 0, end at exactly 100 and are strictly increasing, and the annotation of
\* the curve shows the duration of that file.
C17_NormalizedAxis ==
    pc = "plotted" =>
        \A c \in drawn :
            LET times == OffsetsOf(c)
                n == Len(times)
            IN  /\ Len(c.x) = n
                /\ n >= 1
                /\ c.x[1] = FInt(0)
                /\ c.x[n] = FInt(100)
                /\ \A i \in 1..(n - 1) : FLt(c.x[i], c.x[i + 1])
                /\ \A i \in 1..n : c.x[i] = Frac(times[i] * 100, times[n])
                /\ c.note = Fmt(Seconds(times[n], res), 100)

----------------------------------------------------------------------------
(* C18 *)

LogCurves == {c \in drawn : c.plot \in {LogName(m) : m \in {"pps", "rtt", "throughput"}}}

\* C18: in the log-scale figures every y value is NaN or strictly positive:
\* a NaN of the series stays NaN, a positive value is drawn unchanged, and a
\* zero or negative value is drawn as 0.01.
C18_LogFloor ==
    pc = "plotted" =>
        \A c \in LogCurves :
            LET vals == file_info.info[c.file].vals
            IN  /\ Len(c.y) = Len(vals)
                /\ \A i \in 1..Len(vals) :
                    /\ IsNaN(c.y[i]) \/ FLt(FInt(0), c.y[i])
                    /\ IsNaN(vals[i]) <=> IsNaN(c.y[i])
                    /\ (~IsNaN(vals[i]) /\ FLt(FInt(0), vals[i])) => c.y[i] = vals[i]
                    /\ (~IsNaN(vals[i]) /\ FLe(vals[i], FInt(0)))
                            => c.y[i] = Frac(1, 100)

\* an RTT series [2, NaN, -1] is drawn as [2, NaN, 0.01]
C18_Witness ==
    /\ pc = "plotted"
    /\ \E c \in LogCurves :
        /\ c.metric = "rtt"
        /\ file_info.info[c.file].vals = <<FInt(2), NaN, FInt(-1)>>
        /\ c.y = <<FInt(2), NaN, Frac(1, 100)>>
    /\ \E c \in LogCurves : \E i \in 1..Len(c.y) :
        file_info.info[c.file].vals[i] = FInt(0) /\ c.y[i] = Frac(1, 100)

----------------------------------------------------------------------------
(* C19 *)

\* stdout of the tool run behind the returned value
Stdout == ToolOutput(ret.metric, ret.status, rows, res)

\* the samples the extractor read from it
Samples == Parse(ret.metric, Stdout, res).rows

\* C19: from a header line followed by rows of quoted, comma-separated fields
\* each extractor reads one sample per data row, the header left out and the
\* quotes removed, so the result is the series of the tool's rows; from a
\* header alone, or from no output at all, it returns the empty series and
\* not (None, None).
C19_ParsedRows ==
    (pc # "call" /\ ret.status \in {"ok", "silent"}) =>
        /\ ret.kind = "series"
        /\ Len(Samples) = Len(rows)
        /\ Len(Stdout) > 0 => Len(Samples) = Len(Stdout) - 1
        /\ \A i \in 1..Len(rows) :
            /\ Stdout[i + 1][1] = Quote
            /\ Num(Seconds(Samples[i].t, res)) = Stdout[i + 1][2]
            /\ Samples[i].t = rows[i].t
            /\ ret.metric # "pps" => Samples[i].v = rows[i].v
        /\ ret.metric = "pps" =>
                Entry(ret) = PacketRateSeries(rows, time_interval, res, sample_rate)
        /\ ret.metric = "rtt" =>
                Entry(ret) = RttSeries(rows, time_interval, res, sample_rate)
        /\ ret.metric = "throughput" =>
                Entry(ret) = ThroughputSeries(rows, time_interval, res, sample_rate)
        /\ Len(Stdout) <= 1 => (Entry(ret) = EmptySeries /\ Entry(ret) # NoneResult)

C19_Witness ==
    /\ pc = "returned"
    /\ Got("rtt")
    /\ ret.status = "ok"
    /\ Len(rows) = 2
    /\ Len(Stdout) = 3
    /\ Stdout[1] = <<Name, Comma, Name>>
    /\ Stdout[3] = <<Quote, Num(FInt(rows[2].t)), Quote, Comma,
                     Quote, Num(Frac(2, 1000)), Quote>>
    /\ Samples[2] = [t |-> rows[2].t, v |-> 2]

----------------------------------------------------------------------------
(* C20 *)

\* the factor the binner applies to a count or a byte sum
CorrectionFactor == SampleCorrect(One, sample_rate)

\* C20: for s < 1 the filter keeps the packets whose number is a multiple of
\* floor(1/s), and the factor 1/s applied by the binner is that stride; for
\* s >= 1 the filter does not decimate and the binner does not correct.
C20_StrideIsFactor ==
    pc # "call" =>
        /\ FLt(sample_rate, One) =>
                /\ filter_cmd.decimate
                /\ filter_cmd.stride * sample_rate.n <= sample_rate.d
                /\ (filter_cmd.stride + 1) * sample_rate.n > sample_rate.d
                /\ CorrectionFactor = FDiv(One, sample_rate)
                /\ CorrectionFactor = FInt(filter_cmd.stride)
        /\ ~FLt(sample_rate, One) =>
                /\ ~filter_cmd.decimate
                /\ CorrectionFactor = One

----------------------------------------------------------------------------
(* C21 *)

\* the curves of one figure
CurvesOf(plot) == {c \in drawn : c.plot = plot}

\* the value array a figure has to show for a curve, from the results as held
SeriesOf(c) == Prepare(c.metric, file_data, time_interval, res).info[c.file].vals

\* C21: no plot call changes an array of file_data, whatever calls came
\* before it; the file_info a call leaves holds the times and values that
\* prepare_* derives from file_data; and every curve of every figure, in
\* whatever order the figures were made, shows the series of file_data (the
\* log figures with the floor applied to their own copy).
C21_SeriesReadOnly ==
    /\ [][file_data' = file_data]_vars
    /\ [](file_info.metric \in {"pps", "rtt", "throughput"} =>
            file_info.info
                = Prepare(file_info.metric, file_data, time_interval, res).info)
    /\ [](\A c \in drawn :
            c.y = IF c.plot = LogName(c.metric) THEN LogValues(SeriesOf(c))
                  ELSE SeriesOf(c))

\* the log figure drew a zero packet rate as 0.01, the combined figure made
\* after or before it shows the zero, and file_data still holds the zero
C21_Witness ==
    /\ pc = "views"
    /\ {"packet_rate_log", "combined_normalized"} \subseteq rendered
    /\ \E c \in CurvesOf("packet_rate_log") :
       \E d \in CurvesOf("combined_normalized") :
       \E i \in 1..Len(c.y) :
            /\ d.metric = "pps"
            /\ d.file = c.file
            /\ c.y[i] = LogFloor
            /\ d.y[i] = FInt(0)
            /\ file_data[c.file]["pps"].vals[i] = FInt(0)

----------------------------------------------------------------------------
(* C22 *)

\* the call's series went through prepare_* and the views of its metric
Summarized(metric) ==
    /\ pc = "plotted"
    /\ Got(metric)
    /\ file_info.metric = metric
    /\ rows # <<>>

\* the total prepare_* computed for the capture of the call
Total == file_info.info[1].total

\* C22 as stated: for every non-empty input, every w and every s, degenerate
\* input included, the total packet count, the sum over the bins of rate * w,
\* is (number of input samples) / s.
C22_TotalAnyInput ==
    Summarized("pps") =>
        /\ DOMAIN file_info.info = {1}
        /\ Total = FDiv(FInt(Len(rows)), sample_rate)

\* C22 amended: for every input with t1 > t0 the total packet count is
\* (number of input samples) / s; for degenerate input (all samples at one
\* timestamp) the single bin holds the raw count N and the total is N * w.
C22_TotalPackets ==
    Summarized("pps") =>
        /\ DOMAIN file_info.info = {1}
        /\ Total = FSum([i \in 1..Len(ret.vals) |-> FMul(ret.vals[i], W)])
        /\ Span(rows) > 0 => Total = FDiv(FInt(Len(rows)), sample_rate)
        /\ Span(rows) = 0 => Total = FMul(FInt(Len(rows)), W)

\* two packets two bin widths apart, every fifth packet kept: total 10
C22_Witness ==
    /\ Summarized("pps")
    /\ Len(rows) = 2
    /\ Span(rows) = 2 * time_interval
    /\ sample_rate = Frac(1, 5)
    /\ Len(ret.vals) = 2
    /\ Total = FInt(10)

----------------------------------------------------------------------------
(* C23 *)

\* C23: for every non-empty input, with a span that is a multiple of the bin
\* width and degenerate input included, total_bits, the sum over the bins of
\* throughput * w, is 8 * (sum of all frame lengths) / s: no byte is lost or
\* counted twice.
C23_TotalBits ==
    Summarized("throughput") =>
        /\ DOMAIN file_info.info = {1}
        /\ Total = FDiv(FInt(8 * SumSeq(Values(rows))), sample_rate)

----------------------------------------------------------------------------
(* C24 *)

\* C24: every entry of file_info that reaches plot_normalized_view,
\* plot_log_scale_view or plot_combined_normalized has duration > 0, so no x
\* value of a drawn curve comes from a division by zero; a series that is the
\* single bin at offset 0 is never drawn with duration 0.
C24_PositiveDuration ==
    pc = "plotted" =>
        /\ \A f \in DOMAIN file_info.info :
                rendered # {} => file_info.info[f].duration > 0
        /\ \A c \in drawn :
                /\ Duration(OffsetsOf(c)) > 0
                /\ OffsetsOf(c) # <<0>>
                /\ \A i \in 1..Len(c.x) : ~IsNaN(c.x[i])

----------------------------------------------------------------------------
(* C25 *)

\* the rows of the tool in every order
Reorderings(rs) ==
    {[i \in 1..Len(rs) |-> rs[p[i]]] : p \in Permutations(1..Len(rs))}

\* what the binner of a metric makes of the samples rs
BinnerOf(metric, rs) ==
    IF metric = "pps" THEN PacketRateSeries(rs, time_interval, res, sample_rate)
    ELSE IF metric = "rtt" THEN RttSeries(rs, time_interval, res, sample_rate)
    ELSE ThroughputSeries(rs, time_interval, res, sample_rate)

\* C25: whatever the order in which the tool writes its rows, each binner
\* returns the same offsets and the same bin values; the sorted rows are the
\* tool's rows in ascending timestamp order, each value still with its own
\* timestamp.
C25_OrderIndependent ==
    (pc = "returned" /\ ret.kind = "series" /\ rows # <<>>) =>
        LET sorted == SortRows(rows)
        IN  /\ \A q \in Reorderings(rows) : Entry(ret) = BinnerOf(ret.metric, q)
            /\ sorted \in Reorderings(rows)
            /\ \A i \in 1..(Len(sorted) - 1) : sorted[i].t <= sorted[i + 1].t

\* rows written out of timestamp order, with different values, over two bins
C25_Witness ==
    /\ pc = "returned"
    /\ Got("rtt")
    /\ Len(rows) = 2
    /\ rows[1].t > rows[2].t
    /\ rows[1].v # rows[2].v
    /\ Len(ret.times) >= 2
    /\ SortRows(rows) = <<rows[2], rows[1]>>

----------------------------------------------------------------------------
(* C26 *)

\* the captures a file's results can have come from
CasesOf(f) ==
    {c \in FileCases : LoadedResults(c, time_interval, res) = file_data[f]}

\* the samples of a capture that a metric is binned from
SamplesOf(c, metric) == IF metric = "rtt" THEN c.acks ELSE c.packets

\* d is the start offset of the last bin of the series of the samples rs
StartOfLastBin(d, rs, times) ==
    LET D == Span(rs)
    IN  /\ d = times[Len(times)]
        /\ 0 <= d
        /\ D - time_interval <= d
        /\ d <= D
        /\ d % time_interval = 0
        /\ d = 0 <=> Len(times) = 1

\* the metrics a file holds data for
MetricsOf(f) == {m \in {"pps", "rtt", "throughput"} : f \in WithData(m)}

\* C26: the duration prepare_* records, and the one get_durations takes, for a
\* file and a metric is the start offset of the last bin: with D the span of
\* the samples and w the bin width, max(0, D - w) <= duration <= D, the
\* duration is a multiple of w, and it is 0 exactly when the series has one
\* bin.  get_durations returns, for each file with data under some metric,
\* the largest of these durations, and nothing for a file without data.
C26_LastBinStart ==
    /\ (/\ pc \in {"plotted", "analysed"}
        /\ file_info.metric \in {"pps", "rtt", "throughput"}) =>
            \A f \in DOMAIN file_info.info : \A c \in CasesOf(f) :
                StartOfLastBin(file_info.info[f].duration,
                               SamplesOf(c, file_info.metric),
                               file_data[f][file_info.metric].times)
    /\ pc = "measured" =>
            /\ DOMAIN durations = {f \in DOMAIN file_data : MetricsOf(f) # {}}
            /\ \A f \in DOMAIN durations :
                /\ \E m \in MetricsOf(f) :
                        durations[f] = Duration(file_data[f][m].times)
                /\ \A m \in MetricsOf(f) :
                    /\ Duration(file_data[f][m].times) <= durations[f]
                    /\ \A c \in CasesOf(f) :
                            StartOfLastBin(Duration(file_data[f][m].times),
                                           SamplesOf(c, m), file_data[f][m].times)

\* one file with packets over 4.5 s and acks over 3.5 s: durations 4 s and 3 s,
\* the larger is returned; one file with packets 2 s apart, two bin widths:
\* duration 1 s = D - w, and a single ack: duration 0
C26_Witness ==
    /\ pc = "measured"
    /\ \E f \in DOMAIN durations :
        /\ Duration(file_data[f]["pps"].times) = 8
        /\ Duration(file_data[f]["rtt"].times) = 6
        /\ durations[f] = 8
    /\ \E g \in DOMAIN durations :
        /\ \E c \in CasesOf(g) : Span(c.packets) = 2 * time_interval
        /\ file_data[g]["rtt"].times = <<0>>
        /\ durations[g] = time_interval

====
